---- MODULE Spec2Model ----
(***************************************************************************)
(* Order / payment / ticket lifecycle of the event-ticket backend.         *)
(*                                                                         *)
(* The relational store is the shared state (one event, its orders, their  *)
(* payments and tickets).  Every request handler runs on a process of      *)
(* Procs; one action is one stretch of a handler between two awaited       *)
(* repository calls, so handlers interleave exactly where the code awaits. *)
(* Repository.save(entity) writes the in-memory entity over the stored     *)
(* row (and inserts the row when it is absent), as TypeORM does.           *)
(* Users are symmetric: user 1 places the orders, user 2 is anyone else.   *)
(* Time is kept relative to each order: a row carries the hours elapsed    *)
(* since it was created (age = now - createdAt), so that the test          *)
(* expiredAt < now of the sweeper reads age > PaymentDeadline; the clock   *)
(* advances every copy of a row, stored or held by a handler.              *)
(***************************************************************************)
EXTENDS Integers, Sequences, FiniteSets, TLC

\* ------------------------------------------------------------ bounds
MaxOrders == 2
MaxProcs == 2
MaxQty == 2
InitialQuota == 2
MaxMails == 2
MaxRelease == 1
\* the largest booking of the seat-label specification: with it the
\* ticket indices pass 10 and 100
MaxSeats == 120

\* order deadline: creation time plus one hour (one tick of the clock)
PaymentDeadline == 1

OrderIds == 1..MaxOrders
Procs == 1..MaxProcs
Owner == 1
Users == {Owner, 2}
Quantities == 1..MaxQty
QuotaCap == InitialQuota + MaxRelease

NoOrder == [status |-> "none", quantity |-> 0, userId |-> 0, age |-> 0]

OrderStatus == {"pending", "awaiting_payment", "paid", "cancelled", "expired"}
XenditWebhookStatus == {"PAID", "EXPIRED", "PENDING"}

\* the status of a webhook payload: one of the handled ones or any other
PayloadStatus == XenditWebhookStatus \cup {"SETTLED"}

\* the external_id of a webhook payload: the id of an order, stored or not,
\* or a text that is no UUID
NoUuid == 0
ExternalIds == OrderIds \cup {NoUuid}

\* XENDIT_WEBHOOK_TOKEN and the x-callback-token headers that may arrive
WebhookToken == "token"
Tokens == {WebhookToken, "other"}

VARIABLES
    quota,          \* Event.quota of the one event
    orders,         \* order rows by id (NoOrder: no such row)
    nextId,         \* next fresh order id
    payments,       \* payment rows of each order, oldest first
    tickets,        \* ticket rows of each order, in creation order
    paidMails,      \* sendOrderPaidEmail calls per order
    proc            \* the handler each process runs; when idle, its last response

vars == <<quota, orders, nextId, payments, tickets, paidMails, proc>>

db == <<quota, orders, nextId, payments, tickets, paidMails>>

\* ------------------------------------------------------------ processes
\* idle after a call that answered r
Idle(r) ==
    [pc |-> "idle", op |-> "none", res |-> r, oid |-> 0, q0 |-> 0, st |-> "none",
     hook |-> "none", qty |-> 0, evq |-> 0, ord |-> NoOrder,
     tk |-> 0, sel |-> {}, todo |-> {}, gfrom |-> 0, site |-> "none",
     tid |-> 0, by |-> 0, tkt |-> <<>>, resp |-> <<>>, inv |-> <<>>]

\* a handler `op` called on order o
Call(op, o) == [Idle("none") EXCEPT !.op = op, !.oid = o]

Set(p, rec) == proc' = [proc EXCEPT ![p] = rec]

At(p, op, pc) == proc[p].op = op /\ proc[p].pc = pc

Exists(o) == orders[o] # NoOrder

HasPayment(o) == Len(payments[o]) > 0

\* the payment row that findOne({orderId}) and the order's relation give
PaymentOf(o) == payments[o][1]

Init ==
    /\ quota = InitialQuota
    /\ orders = [o \in OrderIds |-> NoOrder]
    /\ nextId = 1
    /\ payments = [o \in OrderIds |-> <<>>]
    /\ tickets = [o \in OrderIds |-> <<>>]
    /\ paidMails = [o \in OrderIds |-> 0]
    /\ proc = [p \in Procs |-> Idle("none")]

\* ------------------------------------------------------------ clock
Older(row) ==
    IF row = NoOrder \/ row.age > PaymentDeadline THEN row ELSE [row EXCEPT !.age = @ + 1]

\* an hour passes
Tick ==
    /\ orders' = [o \in OrderIds |-> Older(orders[o])]
    /\ proc' = [p \in Procs |-> [proc[p] EXCEPT !.ord = Older(@)]]
    /\ <<orders', proc'>> # <<orders, proc>>
    /\ UNCHANGED <<quota, nextId, payments, tickets, paidMails>>

\* ------------------------------------------------------------ OrdersService.create
InsufficientNever(available, q) == FALSE

\* availableTickets < quantity
Insufficient(available, q) == available < q

\* findOne(event) and the availability check
CreateStart(p, q, cap) ==
    /\ proc[p].pc = "idle"
    /\ nextId + Cardinality({t \in Procs : At(t, "create", "c_save")}) <= cap
    /\ IF Insufficient(quota, q)
         THEN Set(p, Idle("BadRequest:OnlyNAvailable"))
         ELSE Set(p, [Call("create", 0) EXCEPT !.pc = "c_save", !.qty = q,
                                               !.evq = quota, !.q0 = quota])
    /\ UNCHANGED db

\* what eventRepository.findOne gives for the eventId of the request: no
\* row, or the event with its lifecycle status and whether its start time
\* is before now
EventStatus == {"draft", "published", "cancelled"}

NoEvent == [found |-> FALSE, status |-> "none", started |-> FALSE]

Events == {NoEvent} \cup [found : {TRUE}, status : EventStatus, started : BOOLEAN]

EventVerdictAny(event) == "ok"

\* the checks of the event, in the order of the code
EventVerdict(event) ==
    IF ~event.found THEN "NotFound"
    ELSE IF event.status # "published" THEN "BadRequest:EventNotAvailable"
    ELSE IF event.started THEN "BadRequest:EventPassed"
    ELSE "ok"

\* create for an event as the request names it: the event checks, then the
\* availability check and the booking
CreateCall(p, event, q, cap) ==
    IF EventVerdict(event) = "ok"
      THEN CreateStart(p, q, cap)
      ELSE /\ proc[p].pc = "idle"
           /\ Set(p, Idle(EventVerdict(event)))
           /\ UNCHANGED db

\* orderRepository.save(order): the PENDING order row
CreateSaveOrder(p) ==
    /\ At(p, "create", "c_save")
    /\ orders' = [orders EXCEPT ![nextId] =
                    [status |-> "pending", quantity |-> proc[p].qty,
                     userId |-> Owner, age |-> 0]]
    /\ nextId' = nextId + 1
    /\ Set(p, [proc[p] EXCEPT !.pc = "c_reserve", !.oid = nextId])
    /\ UNCHANGED <<quota, payments, tickets, paidMails>>

\* event.quota -= quantity on the event read at the start
Reserved(evq, q) == evq - q

\* eventRepository.save(event) after the decrement
CreateReserve(p) ==
    /\ At(p, "create", "c_reserve")
    /\ quota' = Reserved(proc[p].evq, proc[p].qty)
    /\ Set(p, [proc[p] EXCEPT !.pc = "p_find", !.evq = Reserved(proc[p].evq, proc[p].qty)])
    /\ UNCHANGED <<orders, nextId, payments, tickets, paidMails>>

RestoredNot(evq, q) == evq

\* event.quota += quantity
Restored(evq, q) == evq + q

\* the rollback: the quota of the same in-memory event is restored and saved
CreateRestore(p) ==
    /\ At(p, "create", "c_restore")
    /\ quota' = Restored(proc[p].evq, proc[p].qty)
    /\ Set(p, [proc[p] EXCEPT !.pc = "c_delete", !.evq = Restored(proc[p].evq, proc[p].qty)])
    /\ UNCHANGED <<orders, nextId, payments, tickets, paidMails>>

\* the rollback: orderRepository.delete, then BadRequest
CreateDelete(p) ==
    /\ At(p, "create", "c_delete")
    /\ orders' = [orders EXCEPT ![proc[p].oid] = NoOrder]
    /\ Set(p, [Idle("BadRequest:FailedInvoice") EXCEPT !.oid = proc[p].oid,
                                                      !.q0 = proc[p].q0])
    /\ UNCHANGED <<quota, nextId, payments, tickets, paidMails>>

\* ------------------------------------------------------------ PaymentService.create
\* what the caller does with the payment: create sends the order-created
\* email and answers, createPaymentForOrder calls updateStatus
Paid(t) ==
    IF t.op = "create" THEN [Call("create", 0) EXCEPT !.pc = "mail", !.res = "ok"]
    ELSE [t EXCEPT !.pc = "u_find", !.st = "awaiting_payment"]

\* what the caller does with an error of PaymentService.create
PayFailed(t, error) ==
    IF t.op = "create" THEN [t EXCEPT !.pc = "c_restore"] ELSE Idle(error)

\* findOne(order), findOne(payment of the order)
PayFind(p) ==
    /\ proc[p].pc = "p_find"
    /\ LET t == proc[p]
       IN IF ~Exists(t.oid) THEN Set(p, PayFailed(t, "NotFound"))
          ELSE IF HasPayment(t.oid) THEN Set(p, Paid(t))
          ELSE Set(p, [t EXCEPT !.pc = "p_invoice"])
    /\ UNCHANGED db

UniqueOrAny(rows) == TRUE

\* the unique order reference of the payment rows: an insert is accepted
\* when the order has no payment row yet
Unique(rows) == Len(rows) = 0

\* createInvoice at the gateway, then paymentRepository.save of the new row
\* (by: the handler whose invoice the row refers to)
PayInvoice(p, gatewayOk) ==
    /\ proc[p].pc = "p_invoice"
    /\ IF ~gatewayOk
         THEN /\ payments' = payments
              /\ Set(p, PayFailed(proc[p], "GatewayError"))
         ELSE IF ~Unique(payments[proc[p].oid])
         THEN /\ payments' = payments
              /\ Set(p, PayFailed(proc[p], "QueryFailed"))
         ELSE /\ payments' = [payments EXCEPT ![proc[p].oid] =
                                Append(@, [status |-> "pending", by |-> proc[p].op,
                                           paidAt |-> <<>>])]
              /\ Set(p, Paid(proc[p]))
    /\ UNCHANGED <<quota, orders, nextId, tickets, paidMails>>

\* ------------------------------------------------------------ OrdersService.updateStatus
\* where the caller goes on after updateStatus returned normally
\* (t.ord is still empty when the idempotency guard returned the order
\* unchanged: the response is then labelled "ok:unchanged")
Label(t) == IF t.ord = NoOrder THEN "ok:unchanged" ELSE "ok"

Returned(t) ==
    CASE t.op = "webhook" /\ t.hook = "PAID" ->
           [t EXCEPT !.pc = "g_find", !.site = "hook", !.ord = NoOrder, !.res = Label(t)]
      [] t.op = "sweep" ->
           [t EXCEPT !.pc = "mail", !.ord = NoOrder, !.oid = 0, !.st = "none"]
      [] t.op = "cancel" -> [Call("cancel", 0) EXCEPT !.pc = "mail", !.res = Label(t)]
      [] OTHER -> Idle(Label(t))

ThrownAborts(t) == Idle("NotFound")

\* where the caller goes on after updateStatus threw NotFound: expireOrders
\* catches per order, logs the error and takes the next order; the other
\* callers let it propagate
Thrown(t) ==
    IF t.op = "sweep" THEN [t EXCEPT !.pc = "s_next", !.ord = NoOrder, !.oid = 0, !.st = "none",
                                     !.res = "logged:NotFound"]
    ELSE Idle("NotFound")

ReleasesNever(status, oldStatus) == FALSE

\* the condition of the quota-restoring branch
Releases(status, oldStatus) ==
    /\ status \in {"cancelled", "expired"}
    /\ oldStatus \in {"pending", "awaiting_payment"}

\* the idempotency guard
SameStatusNever(current, status) == FALSE

SameStatus(current, status) == current = status

\* findOne(order with tickets), NotFound, the idempotency guard
UpdFind(p) ==
    /\ proc[p].pc = "u_find"
    /\ LET t == proc[p]
           o == t.oid
       IN IF ~Exists(o)
            THEN Set(p, Thrown(t))
            ELSE IF SameStatus(orders[o].status, t.st)
                   THEN Set(p, Returned(t))
                   ELSE Set(p, [t EXCEPT !.ord = orders[o], !.tk = Len(tickets[o]),
                                         !.pc = IF Releases(t.st, orders[o].status)
                                                  THEN "u_event" ELSE "u_save"])
    /\ UNCHANGED db

\* eventRepository.findOne
UpdEvent(p) ==
    /\ proc[p].pc = "u_event"
    /\ Set(p, [proc[p] EXCEPT !.pc = "u_release", !.evq = quota])
    /\ UNCHANGED db

\* event.quota += order.quantity, eventRepository.save
UpdRelease(p) ==
    /\ proc[p].pc = "u_release"
    /\ quota' = Restored(proc[p].evq, proc[p].ord.quantity)
    /\ Set(p, [proc[p] EXCEPT !.pc = IF proc[p].tk > 0 THEN "u_tickets" ELSE "u_save",
                              !.evq = 0])
    /\ UNCHANGED <<orders, nextId, payments, tickets, paidMails>>

batchCancelTicketsNone(rows, n) == rows

\* TicketsService.batchCancelTickets on the first n rows
batchCancelTickets(rows, n) ==
    [i \in 1..Len(rows) |-> IF i <= n THEN [rows[i] EXCEPT !.status = "cancelled"]
                                      ELSE rows[i]]

\* the tickets loaded with the order are cancelled
UpdCancelTickets(p) ==
    /\ proc[p].pc = "u_tickets"
    /\ tickets' = [tickets EXCEPT ![proc[p].oid] = batchCancelTickets(@, proc[p].tk)]
    /\ Set(p, [proc[p] EXCEPT !.pc = "u_save"])
    /\ UNCHANGED <<quota, orders, nextId, payments, paidMails>>

\* orderRepository.save(order) with the new status; on PAID the post-payment
\* processing follows
UpdSave(p) ==
    /\ proc[p].pc = "u_save"
    /\ LET t == proc[p]
       IN /\ orders' = [orders EXCEPT ![t.oid] = [t.ord EXCEPT !.status = t.st]]
          /\ IF t.st = "paid"
               THEN IF t.tk = 0
                      THEN Set(p, [t EXCEPT !.pc = "g_find", !.site = "upd"])
                      ELSE Set(p, [t EXCEPT !.pc = "u_mail", !.tk = 0])
               ELSE Set(p, Returned([t EXCEPT !.tk = 0]))
    /\ UNCHANGED <<quota, nextId, payments, tickets, paidMails>>

\* where the handler goes on after the email of its operation was sent
\* (mailOk) or failed: the failure is caught and logged, nothing else
Mailed(t, mailOk) ==
    CASE t.op = "sweep" -> [t EXCEPT !.pc = "s_next"]
      [] t.pc = "u_mail" -> Returned(t)
      [] OTHER -> Idle(t.res)

\* mailService.sendOrderPaidEmail
UpdMail(p, mailOk) ==
    /\ proc[p].pc = "u_mail"
    /\ paidMails' = [paidMails EXCEPT ![proc[p].oid] = @ + 1]
    /\ Set(p, Mailed(proc[p], mailOk))
    /\ UNCHANGED <<quota, orders, nextId, payments, tickets>>

\* mailService.sendOrderCreatedEmail (create), sendOrderCancelledEmail
\* (cancel), sendOrderExpiredEmail (expireOrders)
SendMail(p, mailOk) ==
    /\ proc[p].pc = "mail"
    /\ Set(p, Mailed(proc[p], mailOk))
    /\ UNCHANGED db

\* ------------------------------------------------------------ TicketsService.generateTicketsForOrder
\* where the caller goes on after the generation returned (ok) or threw:
\* updateStatus sends the paid email only after a successful generation,
\* processWebhook and the admin endpoint end there (the admin endpoint
\* answers with the tickets: "ok:existing" when they were there already)
GeneratedOrUnwound(t, ok) ==
    CASE t.site = "upd" -> IF ok THEN [t EXCEPT !.pc = "u_mail", !.qty = 0, !.gfrom = 0]
                                  ELSE [t EXCEPT !.pc = "u_save", !.st = t.ord.status,
                                                 !.qty = 0, !.gfrom = 0]
      [] t.site = "hook" -> Idle(t.res)
      [] OTHER -> Idle(IF ~ok THEN "Error" ELSE IF t.qty = 0 THEN "ok:existing" ELSE "ok")

Generated(t, ok) ==
    CASE t.site = "upd" -> IF ok THEN [t EXCEPT !.pc = "u_mail", !.qty = 0, !.gfrom = 0]
                                  ELSE Returned([t EXCEPT !.qty = 0, !.gfrom = 0])
      [] t.site = "hook" -> Idle(t.res)
      [] OTHER -> Idle(IF ~ok THEN "Error" ELSE IF t.qty = 0 THEN "ok:existing" ELSE "ok")

\* String.fromCharCode: the UTF-16 code unit of the number
fromCharCode(c) == c % 65536

RECURSIVE Decimal(_)
\* a non-negative integer in a template literal: its decimal digits, as
\* code units
Decimal(n) == IF n < 10 THEN <<48 + n>> ELSE Decimal(n \div 10) \o <<48 + (n % 10)>>

\* the label without the row: TLA+ has no strings of varying content, so a
\* label is the sequence of its code units ("A" is 65, "-" is 45)
generateSeatNumberFlat(index) ==
    <<fromCharCode(65 + (index \div 100))>> \o <<45>> \o Decimal((index % 10) + 1)

\* `${section}${row}-${seat}`
generateSeatNumber(index) ==
    LET section == fromCharCode(65 + (index \div 100))
        row == ((index % 100) \div 10) + 1
        seat == (index % 10) + 1
    IN <<section>> \o Decimal(row) \o <<45>> \o Decimal(seat)

\* the batch of new rows: ACTIVE, the seat of index i, no PDF yet
NewTickets(n) ==
    [i \in 1..n |-> [status |-> "active", pdf |-> FALSE, seat |-> generateSeatNumber(i - 1)]]

\* the rows of the batch, saved again after generatePDF
WithPdf(rows, from, n) ==
    [i \in 1..Len(rows) |-> IF i > from /\ i <= from + n
                              THEN [rows[i] EXCEPT !.status = "active", !.pdf = TRUE]
                              ELSE rows[i]]

AlreadyGeneratedNever(rows) == FALSE

\* the existing-tickets guard
AlreadyGenerated(rows) == Len(rows) > 0

\* findOne(order), find(tickets of the order), the existing-tickets return
GenFind(p) ==
    /\ proc[p].pc = "g_find"
    /\ LET t == proc[p]
       IN IF ~Exists(t.oid) THEN Set(p, Generated(t, FALSE))
          ELSE IF AlreadyGenerated(tickets[t.oid]) THEN Set(p, Generated(t, TRUE))
          ELSE Set(p, [t EXCEPT !.pc = "g_save", !.qty = orders[t.oid].quantity])
    /\ UNCHANGED db

\* the QR codes, then ticketRepository.save of the batch
GenSave(p, qrOk) ==
    /\ proc[p].pc = "g_save"
    /\ LET t == proc[p]
       IN IF qrOk
            THEN /\ tickets' = [tickets EXCEPT ![t.oid] = @ \o NewTickets(t.qty)]
                 /\ Set(p, [t EXCEPT !.pc = "g_pdf", !.gfrom = Len(tickets[t.oid])])
            ELSE /\ tickets' = tickets
                 /\ Set(p, Generated(t, FALSE))
    /\ UNCHANGED <<quota, orders, nextId, payments, paidMails>>

\* the PDFs, then ticketRepository.save of the batch with pdfUrl
GenPdf(p, pdfOk) ==
    /\ proc[p].pc = "g_pdf"
    /\ LET t == proc[p]
       IN /\ tickets' = IF pdfOk
                          THEN [tickets EXCEPT ![t.oid] = WithPdf(@, t.gfrom, t.qty)]
                          ELSE tickets
          /\ Set(p, Generated(t, pdfOk))
    /\ UNCHANGED <<quota, orders, nextId, payments, paidMails>>

\* TicketsController.generateTickets: the admin endpoint
GenStart(p, o) ==
    /\ proc[p].pc = "idle"
    /\ Set(p, [Call("generate", o) EXCEPT !.pc = "g_find", !.site = "admin"])
    /\ UNCHANGED db

\* ------------------------------------------------------------ PaymentService.processWebhook
\* the switch on payload.status
newPaymentStatus(hook) ==
    CASE hook = "PAID" -> "paid"
      [] hook = "EXPIRED" -> "expired"
      [] OTHER -> "pending"

mapPaymentStatusToOrderStatus(paymentStatus) ==
    CASE paymentStatus = "paid" -> "paid"
      [] paymentStatus = "expired" -> "expired"
      [] paymentStatus = "failed" -> "cancelled"
      [] OTHER -> "pending"

\* payment.status = status, with paidAt = new Date() when the status is
\* PAID, save (paidAt: <<>> while null, else <<the hour of the order's clock>>)
SavePayment(rows, status, now) ==
    IF Len(rows) = 0 THEN rows
    ELSE [rows EXCEPT ![1] = IF status = "paid"
                               THEN [@ EXCEPT !.status = status, !.paidAt = <<now>>]
                               ELSE [@ EXCEPT !.status = status]]

AuthorizedAlways(callbackToken) == TRUE

\* callbackToken === this.webhookToken
Authorized(callbackToken) == callbackToken = WebhookToken

\* uuidRegex.test(external_id)
IsUuid(externalId) == externalId \in OrderIds

IgnoredByIdOnly(externalId, hook) ==
    \/ ~IsUuid(externalId)
    \/ ~Exists(externalId)

\* the payloads that processWebhook drops with a plain return: no UUID, an
\* unhandled status, an order that is not stored
Ignored(externalId, hook) ==
    \/ ~IsUuid(externalId)
    \/ hook \notin XenditWebhookStatus
    \/ ~Exists(externalId)

\* the token check, the ignored payloads (answered like any other, the
\* response is labelled "ok:ignored"), findOne(order); findOne(payment)
\* and the write of its status; then updateStatus is called
HookStart(p, token, o, hook) ==
    /\ proc[p].pc = "idle"
    /\ quota < QuotaCap
    /\ (IsUuid(o) /\ hook = "PAID") => paidMails[o] < MaxMails
    /\ IF ~Authorized(token)
         THEN /\ Set(p, Idle("Unauthorized"))
              /\ UNCHANGED payments
         ELSE IF Ignored(o, hook)
         THEN /\ Set(p, Idle("ok:ignored"))
              /\ UNCHANGED payments
         ELSE /\ payments' = [payments EXCEPT ![o] = SavePayment(@, newPaymentStatus(hook), orders[o].age)]
              /\ Set(p, [Call("webhook", o) EXCEPT
                           !.hook = hook, !.pc = "u_find",
                           !.st = mapPaymentStatusToOrderStatus(newPaymentStatus(hook))])
    /\ UNCHANGED <<quota, orders, nextId, tickets, paidMails>>

\* ------------------------------------------------------------ OrdersService.cancel
\* the guards of cancel, in the order of the code
CancelVerdictByStatus(o, uid) ==
    IF ~Exists(o) THEN "NotFound"
    ELSE IF orders[o].userId # uid THEN "Forbidden"
    ELSE IF orders[o].status \notin {"pending", "awaiting_payment"}
           THEN "BadRequest:CannotCancelStatus"
    ELSE "ok"

CancelVerdictAnyUser(o, uid) ==
    IF ~Exists(o) THEN "NotFound"
    ELSE IF orders[o].status \notin {"pending", "awaiting_payment"}
           THEN "BadRequest:CannotCancelStatus"
    ELSE IF HasPayment(o) /\ PaymentOf(o).status = "paid"
           THEN "BadRequest:CannotCancelPaid"
    ELSE "ok"

CancelVerdict(o, uid) ==
    IF ~Exists(o) THEN "NotFound"
    ELSE IF orders[o].userId # uid THEN "Forbidden"
    ELSE IF orders[o].status \notin {"pending", "awaiting_payment"}
           THEN "BadRequest:CannotCancelStatus"
    ELSE IF HasPayment(o) /\ PaymentOf(o).status = "paid"
           THEN "BadRequest:CannotCancelPaid"
    ELSE "ok"

\* an accepted cancel calls updateStatus(CANCELLED), then sends the
\* cancellation email (best effort)
CancelStart(p, o, uid) ==
    /\ proc[p].pc = "idle"
    /\ quota < QuotaCap
    /\ IF CancelVerdict(o, uid) = "ok"
         THEN Set(p, [Call("cancel", o) EXCEPT !.st = "cancelled", !.pc = "u_find"])
         ELSE Set(p, Idle(CancelVerdict(o, uid)))
    /\ UNCHANGED db

\* ------------------------------------------------------------ OrdersService.expireOrders
\* find({status: PENDING, expiredAt: LessThan(now)})
OverdueOrNot == {o \in OrderIds : orders[o].status = "pending"}

Overdue == {o \in OrderIds : orders[o].status = "pending" /\ orders[o].age > PaymentDeadline}

SweepStart(p) ==
    /\ proc[p].pc = "idle"
    /\ quota < QuotaCap
    /\ Overdue # {}
    /\ Set(p, [Call("sweep", 0) EXCEPT !.pc = "s_next", !.sel = Overdue, !.todo = Overdue,
                                        !.q0 = quota])
    /\ UNCHANGED db

\* the loop over the selected orders: updateStatus(EXPIRED) and the expiry
\* email for each, errors caught per order
SweepNext(p) ==
    /\ At(p, "sweep", "s_next")
    /\ IF proc[p].todo = {}
         THEN Set(p, Idle("ok"))
         ELSE \E o \in proc[p].todo :
                Set(p, [proc[p] EXCEPT !.oid = o, !.todo = @ \ {o},
                                       !.st = "expired", !.pc = "u_find"])
    /\ UNCHANGED db

\* ------------------------------------------------------------ OrdersService.createPaymentForOrder
CreatePaymentVerdictByStatus(o, uid) ==
    IF ~Exists(o) THEN "NotFound"
    ELSE IF orders[o].userId # uid THEN "Forbidden"
    ELSE IF orders[o].status # "pending" THEN "BadRequest:CannotBePaid"
    ELSE "ok"

CreatePaymentVerdict(o, uid) ==
    IF ~Exists(o) THEN "NotFound"
    ELSE IF orders[o].userId # uid THEN "Forbidden"
    ELSE IF orders[o].status # "pending" THEN "BadRequest:CannotBePaid"
    ELSE IF HasPayment(o) THEN "BadRequest:PaymentExists"
    ELSE "ok"

CreatePaymentStart(p, o, uid) ==
    /\ proc[p].pc = "idle"
    /\ IF CreatePaymentVerdict(o, uid) = "ok"
         THEN Set(p, [Call("createPayment", o) EXCEPT !.pc = "p_find"])
         ELSE Set(p, Idle(CreatePaymentVerdict(o, uid)))
    /\ UNCHANGED db

\* ------------------------------------------------------------ OrdersService.simulatePaymentComplete
SimulateVerdict(o) ==
    IF ~Exists(o) THEN "NotFound"
    ELSE IF orders[o].status = "paid" THEN "BadRequest:AlreadyPaid"
    ELSE IF orders[o].status \in {"cancelled", "expired"} THEN "BadRequest:CannotPay"
    ELSE "ok"

\* the payment row, if any, is saved as PAID, then updateStatus(PAID)
SimulateStart(p, o) ==
    /\ proc[p].pc = "idle"
    /\ paidMails[o] < MaxMails
    /\ IF SimulateVerdict(o) = "ok"
         THEN /\ payments' = [payments EXCEPT ![o] = SavePayment(@, "paid", orders[o].age)]
              /\ Set(p, [Call("simulate", o) EXCEPT !.st = "paid", !.pc = "u_find"])
         ELSE /\ UNCHANGED payments
              /\ Set(p, Idle(SimulateVerdict(o)))
    /\ UNCHANGED <<quota, orders, nextId, tickets, paidMails>>

\* ------------------------------------------------------------ specifications
\* OrdersService.create with PaymentService.create; the gateway answers or fails
Create(p, cap) ==
    \/ \E q \in Quantities : CreateStart(p, q, cap)
    \/ CreateSaveOrder(p)
    \/ CreateReserve(p)
    \/ PayFind(p)
    \/ \E ok \in BOOLEAN : PayInvoice(p, ok)
    \/ \E ok \in BOOLEAN : SendMail(p, ok)
    \/ CreateRestore(p)
    \/ CreateDelete(p)

\* updateStatus up to the save of the new status
Transition(p) ==
    \/ UpdFind(p)
    \/ UpdSave(p)

\* the quota-restoring branch of updateStatus
Release(p) ==
    \/ UpdEvent(p)
    \/ UpdRelease(p)

\* the post-payment processing of updateStatus and the ticket generation;
\* the artifact store works or fails as `outcomes` says
PostPaid(p, outcomes) ==
    \/ \E ok \in BOOLEAN : UpdMail(p, ok)
    \/ GenFind(p)
    \/ \E ok \in outcomes : GenSave(p, ok)
    \/ \E ok \in outcomes : GenPdf(p, ok)

Works == {TRUE}

\* cancel and the expiry sweep
CancelOrExpire(p) ==
    \/ \E o \in OrderIds, uid \in Users : CancelStart(p, o, uid)
    \/ SweepStart(p)
    \/ SweepNext(p)

\* Bookings: concurrent create, cancel, EXPIRED webhook and expiry sweep on
\* the orders of the event
Next ==
    \/ Tick
    \/ \E p \in Procs :
         \/ Create(p, MaxOrders)
         \/ Transition(p)
         \/ Release(p)
         \/ CancelOrExpire(p)
         \/ \E o \in OrderIds : HookStart(p, WebhookToken, o, "EXPIRED")

Spec == Init /\ [][Next]_vars

\* One order: concurrent create, cancel, every webhook and the expiry sweep
NextOrder ==
    \/ Tick
    \/ \E p \in Procs :
         \/ Create(p, 1)
         \/ Transition(p)
         \/ Release(p)
         \/ UpdCancelTickets(p)
         \/ PostPaid(p, Works)
         \/ CancelOrExpire(p)
         \/ \E o \in OrderIds, hook \in XenditWebhookStatus :
                HookStart(p, WebhookToken, o, hook)

SpecOrder == Init /\ [][NextOrder]_vars

\* every endpoint, one request at a time: a handler runs to completion
\* before the next one starts
NextSeq ==
    \/ Tick
    \/ Create(1, MaxOrders)
    \/ Transition(1)
    \/ Release(1)
    \/ UpdCancelTickets(1)
    \/ PostPaid(1, Works)
    \/ CancelOrExpire(1)
    \/ \E o \in OrderIds, hook \in XenditWebhookStatus : HookStart(1, WebhookToken, o, hook)
    \/ \E o \in OrderIds : GenStart(1, o)
    \/ \E o \in OrderIds, uid \in Users : CreatePaymentStart(1, o, uid)
    \/ \E o \in OrderIds : SimulateStart(1, o)

SpecSeq == Init /\ [][NextSeq]_vars

\* PAID webhooks on the orders of the event, one request at a time
NextPaid ==
    \/ Create(1, MaxOrders)
    \/ Transition(1)
    \/ PostPaid(1, Works)
    \/ \E o \in OrderIds : HookStart(1, WebhookToken, o, "PAID")

SpecPaid == Init /\ [][NextPaid]_vars

\* PAID webhooks on one order, delivered concurrently
NextPaidRace ==
    \E p \in Procs :
        \/ Create(p, 1)
        \/ Transition(p)
        \/ PostPaid(p, Works)
        \/ \E o \in OrderIds : HookStart(p, WebhookToken, o, "PAID")

SpecPaidRace == Init /\ [][NextPaidRace]_vars

\* the webhook endpoint with any token and any payload, one request at a time
NextHook ==
    \/ Create(1, MaxOrders)
    \/ Transition(1)
    \/ Release(1)
    \/ UpdCancelTickets(1)
    \/ PostPaid(1, Works)
    \/ \E token \in Tokens, o \in ExternalIds, hook \in PayloadStatus :
          HookStart(1, token, o, hook)

SpecHook == Init /\ [][NextHook]_vars

\* one order, one request at a time, with an artifact store and a mail
\* service that may fail
NextFail ==
    \/ Tick
    \/ Create(1, 1)
    \/ Transition(1)
    \/ Release(1)
    \/ UpdCancelTickets(1)
    \/ PostPaid(1, BOOLEAN)
    \/ CancelOrExpire(1)
    \/ \E o \in OrderIds, hook \in XenditWebhookStatus : HookStart(1, WebhookToken, o, hook)
    \/ \E o \in OrderIds : SimulateStart(1, o)

SpecFail == Init /\ [][NextFail]_vars

\* create and createPaymentForOrder on one order, concurrently
NextPay ==
    \E p \in Procs :
        \/ Create(p, 1)
        \/ Transition(p)
        \/ \E o \in OrderIds, uid \in Users : CreatePaymentStart(p, o, uid)

SpecPay == Init /\ [][NextPay]_vars

\* create, createPaymentForOrder and PENDING webhooks on one order,
\* concurrently
NextPending ==
    \E p \in Procs :
        \/ Create(p, 1)
        \/ Transition(p)
        \/ \E o \in OrderIds, uid \in Users : CreatePaymentStart(p, o, uid)
        \/ \E o \in OrderIds : HookStart(p, WebhookToken, o, "PENDING")

SpecPending == Init /\ [][NextPending]_vars

\* one booked order, in pending (as create leaves it) or in
\* awaiting_payment (as createPaymentForOrder leaves it), with its pending
\* payment; then EXPIRED and PAID webhooks, cancel, the expiry sweep and the
\* admin's ticket generation, one request at a time
InitBooked ==
    /\ \E q \in Quantities, st \in {"pending", "awaiting_payment"} :
          /\ quota = InitialQuota - q
          /\ orders = [o \in OrderIds |->
                         IF o = 1 THEN [status |-> st, quantity |-> q, userId |-> Owner, age |-> 0]
                         ELSE NoOrder]
          /\ payments = [o \in OrderIds |->
                           IF o = 1
                             THEN <<[status |-> "pending",
                                     by |-> IF st = "pending" THEN "create" ELSE "createPayment",
                                     paidAt |-> <<>>]>>
                             ELSE <<>>]
    /\ nextId = 2
    /\ tickets = [o \in OrderIds |-> <<>>]
    /\ paidMails = [o \in OrderIds |-> 0]
    /\ proc = [p \in Procs |-> Idle("none")]

NextBooked ==
    \/ Tick
    \/ Transition(1)
    \/ Release(1)
    \/ UpdCancelTickets(1)
    \/ CancelOrExpire(1)
    \/ \E ok \in BOOLEAN : SendMail(1, ok)
    \/ \E o \in OrderIds, hook \in {"EXPIRED", "PAID"} : HookStart(1, WebhookToken, o, hook)
    \/ \E o \in OrderIds : GenStart(1, o)
    \/ PostPaid(1, Works)

SpecBooked == InitBooked /\ [][NextBooked]_vars

\* concurrent create requests that name the event, an event in another
\* lifecycle status or already started, or no event at all
NextCreate ==
    \E p \in Procs :
        \/ \E event \in Events, q \in Quantities : CreateCall(p, event, q, MaxOrders)
        \/ CreateSaveOrder(p)
        \/ CreateReserve(p)
        \/ PayFind(p)
        \/ \E ok \in BOOLEAN : PayInvoice(p, ok)
        \/ \E ok \in BOOLEAN : SendMail(p, ok)
        \/ CreateRestore(p)
        \/ CreateDelete(p)

SpecCreate == Init /\ [][NextCreate]_vars

\* an event with MaxSeats places: one booking of any size, then the
\* generation of its tickets, asked for once or again
SeatQuantities == 1..MaxSeats

InitSeats ==
    /\ quota = MaxSeats
    /\ orders = [o \in OrderIds |-> NoOrder]
    /\ nextId = 1
    /\ payments = [o \in OrderIds |-> <<>>]
    /\ tickets = [o \in OrderIds |-> <<>>]
    /\ paidMails = [o \in OrderIds |-> 0]
    /\ proc = [p \in Procs |-> Idle("none")]

NextSeats ==
    \/ \E q \in SeatQuantities : CreateStart(1, q, 1)
    \/ CreateSaveOrder(1)
    \/ CreateReserve(1)
    \/ PayFind(1)
    \/ PayInvoice(1, TRUE)
    \/ SendMail(1, TRUE)
    \/ \E o \in OrderIds : GenStart(1, o)
    \/ GenFind(1)
    \/ GenSave(1, TRUE)
    \/ GenPdf(1, TRUE)

SpecSeats == InitSeats /\ [][NextSeats]_vars

\* ------------------------------------------------------------ TicketsService: the tickets of an order at the desk
\* ticket numbers are drawn from a clock and a random source
MaxNumber == 2

TicketNumbers == 1..MaxNumber

\* the position of a ticket among the tickets of its order
TicketIds == 1..MaxQty

NoFile == [prefix |-> "", number |-> 0, ext |-> ""]

\* `qr-${ticketNumber}.png`
qrCodeFileName(ticketNumber) == [prefix |-> "qr-", number |-> ticketNumber, ext |-> ".png"]

\* `ticket-${ticket.ticketNumber}.pdf`
pdfFileName(ticketNumber) == [prefix |-> "ticket-", number |-> ticketNumber, ext |-> ".pdf"]

\* the stored row of a generated ticket, with its number, its artifact
\* references and its check-in columns
Stored(row, number) ==
    [status |-> row.status, seat |-> row.seat, number |-> number,
     qrCodeUrl |-> qrCodeFileName(number),
     pdfUrl |-> IF row.pdf THEN pdfFileName(number) ELSE NoFile,
     checkedIn |-> FALSE, checkedInAt |-> <<>>, checkedInBy |-> 0]

\* getTicketById: NotFound, Forbidden for a user who does not own the order
getTicketById(o, i, uid) ==
    IF i > Len(tickets[o]) THEN "NotFound"
    ELSE IF orders[o].userId # uid THEN "Forbidden"
    ELSE "ok"

\* validateTicket: the message of the verdict
Validated(rows, i) ==
    IF i > Len(rows) THEN "BadRequest:Ticket not found"
    ELSE IF rows[i].status # "active" THEN "BadRequest:Ticket is " \o rows[i].status
    ELSE IF rows[i].checkedIn THEN "BadRequest:Ticket has already been used"
    ELSE "valid"

\* checkInTicket: validateTicket, BadRequest unless the ticket is valid
CheckInStart(p, o, i, by) ==
    /\ proc[p].pc = "idle"
    /\ i <= Len(tickets[o])
    /\ IF Validated(tickets[o], i) # "valid"
         THEN Set(p, Idle(Validated(tickets[o], i)))
         ELSE Set(p, [Call("checkIn", o) EXCEPT !.pc = "k_find", !.tid = i, !.by = by])
    /\ UNCHANGED db

\* the second findOne; checkedIn, checkedInAt = new Date(), checkedInBy and
\* the status USED are set on the loaded entity
CheckInFind(p) ==
    /\ proc[p].pc = "k_find"
    /\ LET t == proc[p]
       IN Set(p, [t EXCEPT !.pc = "k_save",
                           !.tkt = [tickets[t.oid][t.tid] EXCEPT
                                      !.checkedIn = TRUE,
                                      !.checkedInAt = <<orders[t.oid].age>>,
                                      !.checkedInBy = t.by,
                                      !.status = "used"]])
    /\ UNCHANGED db

\* ticketRepository.save(ticket)
CheckInSave(p) ==
    /\ proc[p].pc = "k_save"
    /\ tickets' = [tickets EXCEPT ![proc[p].oid][proc[p].tid] = proc[p].tkt]
    /\ Set(p, Idle("ok"))
    /\ UNCHANGED <<quota, orders, nextId, payments, paidMails>>

\* regenerateTicket: getTicketById
RegenStart(p, o, i, uid) ==
    /\ proc[p].pc = "idle"
    /\ IF getTicketById(o, i, uid) # "ok"
         THEN Set(p, Idle(getTicketById(o, i, uid)))
         ELSE Set(p, [Call("regenerate", o) EXCEPT !.pc = "r_files", !.tid = i,
                                                   !.tkt = tickets[o][i]])
    /\ UNCHANGED db

\* findOne(order), generateQRCode and generatePDF: each writes its file and
\* gives the file name, or throws
RegenFiles(p, qrOk, pdfOk) ==
    /\ proc[p].pc = "r_files"
    /\ LET t == proc[p]
       IN IF qrOk /\ pdfOk
            THEN Set(p, [t EXCEPT !.pc = "r_update",
                                  !.tkt = [@ EXCEPT !.qrCodeUrl = qrCodeFileName(t.tkt.number),
                                                    !.pdfUrl = pdfFileName(t.tkt.number)]])
            ELSE Set(p, Idle("Error"))
    /\ UNCHANGED db

UpdatedBySave(row, entity) == entity

\* ticketRepository.update(ticket.id, { qrCodeUrl, pdfUrl }): the two
\* columns of the stored row
Updated(row, entity) ==
    [row EXCEPT !.qrCodeUrl = entity.qrCodeUrl, !.pdfUrl = entity.pdfUrl]

RegenUpdate(p) ==
    /\ proc[p].pc = "r_update"
    /\ tickets' = [tickets EXCEPT ![proc[p].oid][proc[p].tid] = Updated(@, proc[p].tkt)]
    /\ Set(p, Idle("ok"))
    /\ UNCHANGED <<quota, orders, nextId, payments, paidMails>>

\* downloadTicket: getTicketById; the stored reference is returned when
\* there is one. The controller then parses the reference, a bare file
\* name, with new URL(), which throws
DownloadStart(p, o, i, uid) ==
    /\ proc[p].pc = "idle"
    /\ IF getTicketById(o, i, uid) # "ok"
         THEN Set(p, Idle(getTicketById(o, i, uid)))
         ELSE IF tickets[o][i].pdfUrl # NoFile
         THEN Set(p, Idle("Error:Invalid URL"))
         ELSE Set(p, [Call("download", o) EXCEPT !.pc = "d_pdf", !.tid = i,
                                                 !.tkt = tickets[o][i]])
    /\ UNCHANGED db

\* findOne(order), generatePDF
DownloadPdf(p, pdfOk) ==
    /\ proc[p].pc = "d_pdf"
    /\ LET t == proc[p]
       IN IF pdfOk
            THEN Set(p, [t EXCEPT !.pc = "d_update",
                                  !.tkt = [@ EXCEPT !.pdfUrl = pdfFileName(t.tkt.number)]])
            ELSE Set(p, Idle("Error"))
    /\ UNCHANGED db

\* ticketRepository.update(ticket.id, { pdfUrl })
DownloadUpdate(p) ==
    /\ proc[p].pc = "d_update"
    /\ tickets' = [tickets EXCEPT ![proc[p].oid][proc[p].tid] =
                                      [@ EXCEPT !.pdfUrl = proc[p].tkt.pdfUrl]]
    /\ Set(p, Idle("Error:Invalid URL"))
    /\ UNCHANGED <<quota, orders, nextId, payments, paidMails>>

\* one order with its tickets, generated with or without their PDFs: a paid
\* order, or a pending one whose tickets the admin endpoint generated
InitDesk ==
    /\ \E q \in Quantities, st \in {"pending", "paid"}, pdf \in BOOLEAN,
          numbers \in [TicketIds -> TicketNumbers] :
          /\ \A i, j \in TicketIds : i # j => numbers[i] # numbers[j]
          /\ \A i \in TicketIds : i > q => numbers[i] = i
          /\ quota = InitialQuota - q
          /\ orders = [o \in OrderIds |->
                         IF o = 1 THEN [status |-> st, quantity |-> q, userId |-> Owner, age |-> 0]
                         ELSE NoOrder]
          /\ payments = [o \in OrderIds |->
                           IF o = 1
                             THEN <<[status |-> st, by |-> "create",
                                     paidAt |-> IF st = "paid" THEN <<0>> ELSE <<>>]>>
                             ELSE <<>>]
          /\ tickets = [o \in OrderIds |->
                          IF o = 1
                            THEN [i \in 1..q |->
                                    Stored(IF pdf THEN WithPdf(NewTickets(q), 0, q)[i]
                                                  ELSE NewTickets(q)[i], numbers[i])]
                            ELSE <<>>]
          /\ paidMails = [o \in OrderIds |-> IF o = 1 /\ st = "paid" THEN 1 ELSE 0]
    /\ nextId = 2
    /\ proc = [p \in Procs |-> Idle("none")]

\* the desk: concurrent check-ins, while the owner cancels the order
NextDesk ==
    \/ Tick
    \/ \E p \in Procs, i \in TicketIds, by \in Users : CheckInStart(p, 1, i, by)
    \/ \E p \in Procs : CheckInFind(p)
    \/ \E p \in Procs : CheckInSave(p)
    \/ \E uid \in Users : CancelStart(1, 1, uid)
    \/ Transition(1)
    \/ Release(1)
    \/ UpdCancelTickets(1)
    \/ \E ok \in BOOLEAN : SendMail(1, ok)

SpecDesk == InitDesk /\ [][NextDesk]_vars

\* the owner regenerates and downloads tickets while they are checked in
NextRegen ==
    \/ Tick
    \/ \E i \in TicketIds, uid \in Users : RegenStart(1, 1, i, uid)
    \/ \E qrOk, pdfOk \in BOOLEAN : RegenFiles(1, qrOk, pdfOk)
    \/ RegenUpdate(1)
    \/ \E i \in TicketIds, uid \in Users : DownloadStart(1, 1, i, uid)
    \/ \E pdfOk \in BOOLEAN : DownloadPdf(1, pdfOk)
    \/ DownloadUpdate(1)
    \/ \E i \in TicketIds, by \in Users : CheckInStart(2, 1, i, by)
    \/ CheckInFind(2)
    \/ CheckInSave(2)

SpecRegen == InitDesk /\ [][NextRegen]_vars

\* ------------------------------------------------------------ PaymentService.formatInvoiceResponse
\* JavaScript values are written as their literals; "undefined" is the value
\* of a key that the response does not have
Undefined == "undefined"

IsoString == "'2026-01-01T00:00:00.000Z'"

Strings == {"''", "'x'", IsoString}

Falsy(v) == v \in {Undefined, "''", "0", "false"}

\* a || b
Or(a, b) == IF Falsy(a) THEN b ELSE a

\* Date.prototype.toISOString; a value without that method throws
toISOString(v) == IF v = "Date" THEN IsoString ELSE "TypeError"

\* v ? (typeof v === 'string' ? v : v.toISOString()) : otherwise
IsoOr(v, otherwise) ==
    IF Falsy(v) THEN otherwise
    ELSE IF v \in Strings THEN v
    ELSE toISOString(v)

\* the camelCase name of each field that the provider names in two ways
Camel ==
    [external_id |-> "externalId", user_id |-> "userId", is_high |-> "isHigh",
     payment_method |-> "paymentMethod", merchant_name |-> "merchantName",
     paid_amount |-> "paidAmount", bank_code |-> "bankCode", paid_at |-> "paidAt",
     payer_email |-> "payerEmail",
     adjusted_received_amount |-> "adjustedReceivedAmount",
     fees_paid_amount |-> "feesPaidAmount", payment_channel |-> "paymentChannel",
     payment_destination |-> "paymentDestination", invoice_url |-> "invoiceUrl",
     expiry_date |-> "expiryDate", should_send_email |-> "shouldSendEmail"]

\* the fields with one name
Singles == {"id", "status", "amount", "description", "updated", "created",
            "currency", "items", "fees"}

\* the fields of XenditInvoiceResponse
Fields == DOMAIN Camel \cup Singles

\* the keys a provider response may have
Keys == Fields \cup {Camel[c] : c \in DOMAIN Camel}

Canonical(key) == IF key \in Fields THEN key ELSE CHOOSE c \in DOMAIN Camel : Camel[c] = key

\* the values a provider gives to a key
Values(key) ==
    CASE Canonical(key) \in {"amount", "paid_amount", "adjusted_received_amount",
                             "fees_paid_amount"} -> {"0", "7"}
      [] Canonical(key) \in {"is_high", "should_send_email"} -> {"false", "true"}
      [] Canonical(key) \in {"updated", "created", "expiry_date", "paid_at"} -> {IsoString, "Date"}
      [] Canonical(key) \in {"items", "fees"} -> {"[]"}
      [] OTHER -> {"''", "'x'"}

\* a response with the keys k1 and k2
Response(k1, v1, k2, v2) ==
    [k \in Keys |-> IF k = k1 THEN v1 ELSE IF k = k2 THEN v2 ELSE Undefined]

formatInvoiceResponse(r) ==
    [id |-> Or(r.id, "''"),
     external_id |-> Or(Or(r.externalId, r.external_id), "''"),
     user_id |-> Or(r.userId, r.user_id),
     is_high |-> Or(r.isHigh, r.is_high),
     payment_method |-> Or(r.paymentMethod, r.payment_method),
     status |-> Or(r.status, "''"),
     merchant_name |-> Or(r.merchantName, r.merchant_name),
     amount |-> Or(r.amount, "0"),
     paid_amount |-> Or(r.paidAmount, r.paid_amount),
     bank_code |-> Or(r.bankCode, r.bank_code),
     paid_at |-> Or(r.paidAt, r.paid_at),
     payer_email |-> Or(r.payerEmail, r.payer_email),
     description |-> Or(r.description, "''"),
     adjusted_received_amount |-> Or(r.adjustedReceivedAmount, r.adjusted_received_amount),
     fees_paid_amount |-> Or(r.feesPaidAmount, r.fees_paid_amount),
     updated |-> IsoOr(r.updated, "''"),
     created |-> IsoOr(r.created, "''"),
     currency |-> r.currency,
     payment_channel |-> Or(r.paymentChannel, r.payment_channel),
     payment_destination |-> Or(r.paymentDestination, r.payment_destination),
     invoice_url |-> Or(r.invoiceUrl, r.invoice_url),
     expiry_date |-> IsoOr(r.expiryDate, Undefined),
     should_send_email |-> Or(r.shouldSendEmail, r.should_send_email),
     items |-> r.items,
     fees |-> r.fees]

\* invoiceApi.createInvoice answers with `response`, which createInvoice
\* formats; a TypeError of the formatting is rethrown
PayFormat(p, response) ==
    /\ proc[p].pc = "p_invoice"
    /\ LET t == proc[p]
           xenditInvoice == formatInvoiceResponse(response)
       IN IF \E c \in Fields : xenditInvoice[c] = "TypeError"
            THEN Set(p, PayFailed(t, "TypeError"))
            ELSE Set(p, [t EXCEPT !.pc = "p_save", !.resp = response, !.inv = xenditInvoice])
    /\ UNCHANGED db

\* expiresAt from the invoice's expiry_date, else one hour from now; the
\* payment row with the invoice's id and URL is saved
PaySave(p) ==
    /\ proc[p].pc = "p_save"
    /\ LET t == proc[p]
       IN IF ~Unique(payments[t.oid])
            THEN /\ payments' = payments
                 /\ Set(p, PayFailed(t, "QueryFailed"))
            ELSE /\ payments' = [payments EXCEPT ![t.oid] =
                                   Append(@, [status |-> "pending", by |-> t.op,
                                              paidAt |-> <<>>,
                                              referenceId |-> t.inv.id,
                                              paymentUrl |-> t.inv.invoice_url,
                                              expiresAt |-> IF Falsy(t.inv.expiry_date)
                                                              THEN "Date.now() + 3600 * 1000"
                                                              ELSE t.inv.expiry_date])]
                 /\ Set(p, Paid(t))
    /\ UNCHANGED <<quota, orders, nextId, tickets, paidMails>>

\* bookings, one at a time, whose invoice the provider answers with up to
\* two keys
NextInvoice ==
    \/ \E q \in Quantities : CreateStart(1, q, 1)
    \/ CreateSaveOrder(1)
    \/ CreateReserve(1)
    \/ PayFind(1)
    \/ \E k1, k2 \in Keys : \E v1 \in Values(k1), v2 \in Values(k2) :
          PayFormat(1, Response(k1, v1, k2, v2))
    \/ PaySave(1)
    \/ \E ok \in BOOLEAN : SendMail(1, ok)

SpecInvoice == Init /\ [][NextInvoice]_vars

\* ------------------------------------------------------------ the sweeper that keeps running
\* the steps of expireOrders, run by process p
Sweeper(p) ==
    \/ SweepStart(p)
    \/ SweepNext(p)
    \/ Transition(p)
    \/ Release(p)
    \/ \E ok \in BOOLEAN : SendMail(p, ok)

\* the steps of cancel, run by process p
Canceller(p) ==
    \/ \E o \in OrderIds, uid \in Users : CancelStart(p, o, uid)
    \/ Transition(p)
    \/ Release(p)
    \/ \E ok \in BOOLEAN : SendMail(p, ok)

\* one booked order; the clock, the sweeper and the users' cancel requests
NextSweepFair ==
    \/ Tick
    \/ Sweeper(1)
    \/ Canceller(2)

\* the steps of a request of process p that was accepted
Started(p) ==
    \/ Transition(p)
    \/ Release(p)
    \/ \E ok \in BOOLEAN : SendMail(p, ok)

\* expireOrders is called again and again and a pass that was started goes
\* on, as does a cancel request that was accepted
SpecSweepFair ==
    InitBooked /\ [][NextSweepFair]_vars /\ WF_vars(Sweeper(1)) /\ WF_vars(Started(2))

\* one booked order: the PAID webhook, delivered to process 1, while
\* process 2 runs the owner's cancel or the expiry sweep
NextPaidLost ==
    \/ Tick
    \/ \E o \in OrderIds : HookStart(1, WebhookToken, o, "PAID")
    \/ Transition(1)
    \/ PostPaid(1, Works)
    \/ CancelOrExpire(2)
    \/ Started(2)

SpecPaidLost == InitBooked /\ [][NextPaidLost]_vars

TypeOK ==
    /\ quota \in Int
    /\ nextId \in 1..(MaxOrders + 1)
    /\ \A o \in OrderIds : orders[o].status \in OrderStatus \cup {"none"}

\* ------------------------------------------------------------ properties
Quiescent == \A p \in Procs : proc[p].pc = "idle"

RECURSIVE Total(_, _)
\* the sum of f over the set S
Total(f, S) ==
    IF S = {} THEN 0
    ELSE LET x == CHOOSE y \in S : TRUE IN f[x] + Total(f, S \ {x})

Live == {o \in OrderIds : orders[o].status \in {"pending", "awaiting_payment", "paid"}}

\* C1: under any interleaving of create, cancel, webhook and sweep on the
\* event, the available quota is never negative
QuotaNonNegative == quota >= 0

\* the event is sold out while a second booking is being handled
SoldOut ==
    /\ quota = 0
    /\ \E o \in OrderIds : orders[o].status = "pending"
    /\ \E p \in Procs : proc[p].pc # "idle"

\* C2: under any interleaving of create, cancel, webhook and sweep on the
\* event, the available quota never exceeds the original quota
QuotaWithinOriginal == quota <= InitialQuota

\* C3: bookings never oversell: once the handlers have answered, the
\* quantities of the orders in pending, awaiting_payment or paid add up to
\* at most the original quota
NoOversell ==
    Quiescent => Total([o \in OrderIds |-> orders[o].quantity], Live) <= InitialQuota

\* C4: a paid order keeps its status in every step
PaidIsAbsorbing ==
    [][\A o \in OrderIds : orders[o].status = "paid" => orders'[o].status = "paid"]_vars

\* the tickets of the order are one complete set
OneSet(o) ==
    /\ Len(tickets[o]) = orders[o].quantity
    /\ \A i \in 1..Len(tickets[o]) : tickets[o][i].status = "active" /\ tickets[o][i].pdf

\* C5: when PAID webhooks for an order are delivered one after the other,
\* the paid order has one set of tickets, as many as its quantity, and one
\* paid email was attempted, however often the webhook is repeated
PaidOnceInSequence ==
    \A o \in OrderIds :
        (proc[1].pc = "idle" /\ orders[o].status = "paid")
            => (OneSet(o) /\ paidMails[o] = 1)

\* the PAID webhook was delivered again for a paid order of two tickets and
\* has been answered
PaidDeliveredAgain ==
    /\ proc[1].pc = "idle"
    /\ proc[1].res = "ok:unchanged"
    /\ \E o \in OrderIds : /\ orders[o].status = "paid"
                            /\ orders[o].quantity = MaxQty
                            /\ Len(tickets[o]) = MaxQty
                            /\ paidMails[o] = 1

\* C6: when PAID webhooks for an order are processed concurrently, the paid
\* order ends with as many tickets as its quantity and one paid email attempt
PaidOnceConcurrently ==
    \A o \in OrderIds :
        (Quiescent /\ orders[o].status = "paid")
            => (Len(tickets[o]) = orders[o].quantity /\ paidMails[o] = 1)

\* process p found order o pending and has since restored its quota
HasReleased(p, o) ==
    /\ proc[p].oid = o
    /\ proc[p].ord.status = "pending"
    /\ proc[p].st \in {"cancelled", "expired"}
    /\ proc[p].pc \in {"u_tickets", "u_save"}

\* process p found order o pending and has since generated its tickets
HasGenerated(p, o) ==
    /\ proc[p].oid = o
    /\ proc[p].ord.status = "pending"
    /\ proc[p].st = "paid"
    /\ proc[p].pc \in {"g_pdf", "u_mail"}
    /\ Len(tickets[o]) > 0

\* C7: of two transition attempts that found the same order pending, a PAID
\* webhook and a cancel or sweep, at most one applies its side effect: the
\* quota is not released while the tickets are generated
LinearizedTransitions ==
    \A o \in OrderIds : \A p, r \in Procs : ~(HasReleased(p, o) /\ HasGenerated(r, o))

Rejections == {"Forbidden", "BadRequest:CannotCancelStatus", "BadRequest:CannotCancelPaid"}

Transitions ==
    {<<"pending", "awaiting_payment">>,
     <<"pending", "paid">>, <<"awaiting_payment", "paid">>,
     <<"pending", "cancelled">>, <<"awaiting_payment", "cancelled">>,
     <<"pending", "expired">>, <<"awaiting_payment", "expired">>}

\* C10: every change of the status of an order row is a transition of the
\* state machine (the insert and the rollback delete of the row apart)
StateMachine ==
    [][\A o \in OrderIds :
          (Exists(o) /\ orders'[o] # NoOrder /\ orders'[o].status # orders[o].status)
              => <<orders[o].status, orders'[o].status>> \in Transitions]_vars

\* the row without its clock
Timeless(row) == [row EXCEPT !.age = 0]

\* C11: a sweep pass selects the pending orders whose deadline has passed,
\* and no others; when it has handled some of them, each of these is
\* expired and the quota is what it was at the start plus their quantities;
\* no step of the pass touches an order it did not select
SweepExact ==
    [][\A p \in Procs :
          /\ (proc[p].pc = "idle" /\ proc'[p].op = "sweep")
                => /\ proc'[p].sel = {o \in OrderIds : /\ orders[o].status = "pending"
                                                       /\ orders[o].age > PaymentDeadline}
                   /\ proc'[p].q0 = quota
          /\ (proc'[p].op = "sweep" /\ proc'[p].pc = "s_next")
                => LET handled == proc'[p].sel \ proc'[p].todo
                   IN /\ \A o \in handled : orders'[o].status = "expired"
                      /\ quota' = proc'[p].q0
                                    + Total([o \in OrderIds |-> orders[o].quantity], handled)
          /\ proc[p].op = "sweep"
                => \A o \in OrderIds \ proc[p].sel : Timeless(orders'[o]) = Timeless(orders[o])
    ]_vars

\* a pass has expired an overdue order and is done, and another order, whose
\* deadline has not passed, is still pending
SweptOneOfTwo ==
    \E p \in Procs :
        /\ At(p, "sweep", "s_next")
        /\ proc[p].todo = {}
        /\ \E o \in proc[p].sel : orders[o].status = "expired"
        /\ \E o \in OrderIds \ proc[p].sel :
               orders[o].status = "pending" /\ orders[o].age <= PaymentDeadline

\* C12: a webhook whose token is not the configured one is answered
\* Unauthorized and writes nothing: orders, payments, tickets, quota and
\* the emails sent stay as they are
UnauthorizedWebhookRejected ==
    [][\A p \in Procs, token \in Tokens, o \in ExternalIds, hook \in PayloadStatus :
          (token # WebhookToken /\ HookStart(p, token, o, hook))
              => (proc'[p] = Idle("Unauthorized") /\ UNCHANGED db)]_vars

\* a webhook was refused while an unpaid order with its payment was waiting
RefusedWhileAwaited ==
    /\ proc[1] = Idle("Unauthorized")
    /\ \E o \in OrderIds : /\ orders[o].status = "pending"
                            /\ HasPayment(o)
                            /\ PaymentOf(o).status = "pending"

\* C13: a webhook with the configured token is always acknowledged: whatever
\* it carries and whenever it ends, its answer is no error
WebhookAcknowledged ==
    [][\A p \in Procs :
          /\ \A o \in ExternalIds, hook \in PayloadStatus :
                (HookStart(p, WebhookToken, o, hook) /\ proc'[p].pc = "idle")
                    => proc'[p].res \in {"ok", "ok:unchanged", "ok:ignored"}
          /\ (proc[p].op = "webhook" /\ proc'[p].pc = "idle")
                => proc'[p].res \in {"ok", "ok:unchanged", "ok:ignored"}]_vars

\* C14: a failure of the ticket generation or of an email writes nothing to
\* the orders and the quota and starts no further write: the handler goes on
\* to its answer (or, in processWebhook, to its own generation call; in
\* expireOrders, to the next order); a PAID webhook or a simulated payment
\* that has been answered leaves the order paid
FailureIsolation ==
    [][\A p \in Procs :
          /\ (GenSave(p, FALSE) \/ GenPdf(p, FALSE) \/ UpdMail(p, FALSE))
                => /\ orders' = orders /\ quota' = quota
                   /\ proc[p].site = "upd" => orders[proc[p].oid].status = "paid"
                   /\ proc'[p].pc \in {"idle", "g_find"}
          /\ SendMail(p, FALSE)
                => /\ UNCHANGED db
                   /\ proc'[p].pc \in {"idle", "s_next"}
                   /\ proc'[p].pc = "idle" => proc'[p].res \in {"ok", "ok:unchanged"}
          /\ (proc[p].st = "paid" /\ proc[p].op \in {"webhook", "simulate"}
                                 /\ proc'[p].pc = "idle")
                => orders'[proc[p].oid].status = "paid"]_vars

\* the PAID webhook was answered for an order that is paid although no
\* ticket could be generated and no paid email was sent
PaidWithoutTickets ==
    /\ proc[1].pc = "idle"
    /\ proc[1].res = "ok"
    /\ \E o \in OrderIds : /\ orders[o].status = "paid"
                            /\ Len(tickets[o]) = 0
                            /\ paidMails[o] = 0

\* C15: an order never has more than one payment row, and the row it has
\* stays the one that was created first
OnePayment ==
    [][\A o \in OrderIds :
          /\ Len(payments'[o]) <= 1
          /\ Len(payments[o]) = 1
                => (Len(payments'[o]) = 1 /\ payments'[o][1].by = payments[o][1].by)]_vars

\* createPaymentForOrder came second: its insert was refused because create
\* had stored the payment of the order in the meantime
SecondPaymentRefused ==
    \E p \in Procs, o \in OrderIds :
        /\ proc[p] = Idle("QueryFailed")
        /\ Len(payments[o]) = 1
        /\ payments[o][1].by = "create"

\* C16: ticket rows are created for an order only while its status is paid,
\* so an order that was never paid has no tickets
TicketsOnlyWhenPaid ==
    [][\A o \in OrderIds :
          Len(tickets'[o]) > Len(tickets[o]) => orders[o].status = "paid"]_vars

\* C17: when the order has tickets, generateTicketsForOrder returns them:
\* it goes on to no write, and the ticket rows stay exactly as they are,
\* however often it is invoked
GenerationIdempotent ==
    [][\A p \in Procs :
          (proc[p].pc = "g_find" /\ Exists(proc[p].oid) /\ Len(tickets[proc[p].oid]) > 0)
              => (tickets' = tickets /\ proc'[p].pc \notin {"g_save", "g_pdf"})]_vars

\* the admin asked again for the tickets of an order that has all of them
\* and got the existing ones
RegenerationAnswered ==
    /\ proc[1] = Idle("ok:existing")
    /\ \E o \in OrderIds : Len(tickets[o]) = MaxQty /\ orders[o].quantity = MaxQty

\* C18: the first generation for an order of quantity n creates n tickets;
\* the ticket of index i has the label of section chr("A" + i \div 100), row
\* (i mod 100) \div 10 + 1 and seat (i mod 10) + 1, the first three being
\* A1-1, A1-2, A1-3; the labels of one order are pairwise distinct
SeatLabels ==
    \A o \in OrderIds :
        (Exists(o) /\ Len(tickets[o]) > 0) =>
            LET n == orders[o].quantity
                label(i) == tickets[o][i + 1].seat
            IN /\ Len(tickets[o]) = n
               /\ \A i \in 0..(n - 1) :
                     /\ label(i)[1] = 65 + (i \div 100)
                     /\ SubSeq(label(i), 2, Len(label(i))) =
                          Decimal(((i % 100) \div 10) + 1) \o <<45>> \o Decimal((i % 10) + 1)
               /\ label(0) = <<65, 49, 45, 49>>
               /\ n > 1 => label(1) = <<65, 49, 45, 50>>
               /\ n > 2 => label(2) = <<65, 49, 45, 51>>
               /\ \A i, j \in 0..(n - 1) : label(i) = label(j) => i = j

\* the tickets of the largest booking are there: the last one sits in
\* section B, row 2, seat 10
LargestBookingSeated ==
    \E o \in OrderIds :
        /\ Exists(o) /\ orders[o].quantity = MaxSeats
        /\ Len(tickets[o]) = MaxSeats
        /\ tickets[o][MaxSeats].pdf
        /\ MaxSeats > 100 /\ tickets[o][MaxSeats].seat[1] = 66

\* C19: when updateStatus finds the order in the target status already, it
\* returns to its caller at once: quota, orders, payments, tickets and the
\* count of paid emails stay as they are, and it enters none of its own
\* steps (quota release, ticket cancellation or generation, save, email)
GuardIsNoOp ==
    [][\A p \in Procs :
          (/\ proc[p].pc = "u_find" /\ Exists(proc[p].oid)
           /\ orders[proc[p].oid].status = proc[p].st
           /\ proc'[p].pc # "u_find")
              => /\ UNCHANGED <<quota, orders, nextId, payments, tickets, paidMails>>
                 /\ proc'[p].pc \notin {"u_event", "u_release", "u_tickets", "u_save", "u_mail"}
                 /\ proc'[p].site # "upd"]_vars

\* the EXPIRED webhook came again for the one order, which had expired and
\* given its places back, and was answered from the guard
ExpiredDeliveredAgain ==
    /\ proc[1] = Idle("ok:unchanged")
    /\ nextId = 2 /\ orders[1].status = "expired"
    /\ quota = InitialQuota

\* C20: a webhook whose target status is the order's current status leaves
\* the payment row as it is: status and paidAt stay as the first delivery
\* set them
DuplicateWebhookKeepsPayment ==
    [][\A p \in Procs :
          (/\ proc[p].pc = "idle"
           /\ proc'[p].op = "webhook" /\ proc'[p].pc = "u_find"
           /\ orders[proc'[p].oid].status = proc'[p].st)
              => payments' = payments]_vars

\* C21: no step of a PENDING webhook changes the status of an order that is
\* in pending or awaiting_payment
PendingWebhookKeepsStatus ==
    [][\A p \in Procs :
          (/\ proc[p].op = "webhook" /\ proc[p].hook = "PENDING"
           /\ proc'[p] # proc[p]
           /\ orders[proc[p].oid].status \in {"pending", "awaiting_payment"})
              => orders'[proc[p].oid].status = orders[proc[p].oid].status]_vars

\* the handler of process p is the EXPIRED webhook and takes this step
ExpiredHookStep(p, pc) ==
    /\ proc[p].op = "webhook" /\ proc[p].hook = "EXPIRED"
    /\ proc[p].pc = pc /\ proc'[p].pc # pc

\* C22: an EXPIRED webhook that finds the order in pending or
\* awaiting_payment goes on to release the quota; its release adds the
\* order's quantity to the quota; its save leaves the order expired, with
\* every ticket it had cancelled and none removed
ExpiredWebhookEffect ==
    [][\A p \in Procs :
          LET o == proc[p].oid
          IN /\ (ExpiredHookStep(p, "u_find")
                  /\ orders[o].status \in {"pending", "awaiting_payment"})
                    => proc'[p].pc = "u_event"
             /\ ExpiredHookStep(p, "u_release")
                    => quota' = quota + orders[o].quantity
             /\ (ExpiredHookStep(p, "u_save")
                  /\ proc[p].ord.status \in {"pending", "awaiting_payment"})
                    => /\ orders'[o].status = "expired"
                       /\ Len(tickets'[o]) = Len(tickets[o])
                       /\ \A i \in 1..Len(tickets'[o]) : tickets'[o][i].status = "cancelled"]_vars

\* the EXPIRED webhook of an awaiting_payment order that had all its
\* tickets has given the places back and cancelled the tickets, and is
\* about to save the order
ExpiredHookReleased ==
    /\ At(1, "webhook", "u_save") /\ proc[1].hook = "EXPIRED"
    /\ proc[1].ord.status = "awaiting_payment"
    /\ quota = InitialQuota
    /\ Len(tickets[proc[1].oid]) = MaxQty
    /\ \A i \in 1..MaxQty : tickets[proc[1].oid][i].status = "cancelled"

\* C23: the handler that moves an order into expired, be it the EXPIRED
\* webhook or the sweeper, goes on to send the expired email
ExpiredMailAttempted ==
    [][\A p \in Procs :
          (/\ proc[p].pc = "u_save" /\ proc'[p].pc # "u_save"
           /\ orders[proc[p].oid].status # "expired"
           /\ orders'[proc[p].oid].status = "expired")
              => proc'[p].pc = "mail"]_vars

\* the handler of process p is cancel and takes this step
CancelStep(p, pc) ==
    /\ proc[p].op = "cancel" /\ proc[p].pc = pc /\ proc'[p].pc # pc

\* C24: the owner's cancel of an order in pending or awaiting_payment whose
\* payment is not paid is accepted; it releases the order's quantity, saves
\* the order as cancelled with its tickets cancelled and goes on to the
\* cancelled email; the owner's cancel of an order in another status answers
\* BadRequest and writes nothing
CancelEffect ==
    [][\A p \in Procs :
          /\ \A o \in OrderIds :
                /\ (/\ CancelStart(p, o, Owner)
                     /\ orders[o].status \in {"pending", "awaiting_payment"}
                     /\ ~(HasPayment(o) /\ PaymentOf(o).status = "paid"))
                       => proc'[p] = [Call("cancel", o) EXCEPT !.st = "cancelled", !.pc = "u_find"]
                /\ (/\ CancelStart(p, o, Owner)
                     /\ orders[o].status \in {"paid", "cancelled", "expired"})
                       => /\ proc'[p] = Idle("BadRequest:CannotCancelStatus")
                          /\ UNCHANGED db
          /\ CancelStep(p, "u_find") => proc'[p].pc = "u_event"
          /\ CancelStep(p, "u_release")
                => quota' = quota + orders[proc[p].oid].quantity
          /\ CancelStep(p, "u_save")
                => LET o == proc[p].oid
                   IN /\ orders'[o].status = "cancelled"
                      /\ Len(tickets'[o]) = Len(tickets[o])
                      /\ \A i \in 1..Len(tickets'[o]) : tickets'[o][i].status = "cancelled"
                      /\ proc'[p].pc = "mail"]_vars

\* the owner's cancel of the order, which had all its tickets, has given
\* the places back and cancelled order and tickets, and is about to send
\* the cancelled email
CancelledBeforeMail ==
    /\ At(1, "cancel", "mail")
    /\ orders[1].status = "cancelled"
    /\ quota = InitialQuota
    /\ Len(tickets[1]) = MaxQty
    /\ \A i \in 1..MaxQty : tickets[1][i].status = "cancelled"

\* what has been added back to the quota for order o, the only order of the
\* event: the quota above what the reservation of o left
AddedBack(o) == quota - (InitialQuota - orders[o].quantity)

\* C25: whatever cancel, the webhooks, the sweeper and the creation rollback
\* do to the one order of the event, in sequence or interleaved, no more is
\* added back to the quota for it than its reservation took
ReleasedAtMostOnce ==
    \A o \in OrderIds : Exists(o) => AddedBack(o) <= orders[o].quantity

CreateRejections ==
    {"NotFound", "BadRequest:EventNotAvailable", "BadRequest:EventPassed",
     "BadRequest:OnlyNAvailable"}

\* C26: create for an event that does not exist, is not published, has
\* started, or has fewer places than requested answers NotFound or
\* BadRequest, stores no order and leaves the quota as it is
CreateRejected ==
    [][\A p \in Procs, event \in Events, q \in Quantities :
          (/\ CreateCall(p, event, q, MaxOrders)
           /\ \/ ~event.found
              \/ event.status # "published"
              \/ event.started
              \/ quota < q)
              => /\ proc'[p].pc = "idle"
                 /\ proc'[p].res \in CreateRejections
                 /\ ~event.found => proc'[p].res = "NotFound"
                 /\ orders' = orders /\ nextId' = nextId
                 /\ quota' = quota
                 /\ UNCHANGED <<payments, tickets, paidMails>>]_vars

\* with one order booked, a create for the event that has already started
\* was refused
StartedEventRefused ==
    /\ proc[1] = Idle("BadRequest:EventPassed")
    /\ nextId = 2 /\ Exists(1)
    /\ quota = InitialQuota - orders[1].quantity

\* C27: a cancel by a user who does not own the order answers Forbidden and
\* writes nothing: the order's status, the quota and the tickets stay
CancelByStrangerForbidden ==
    [][\A p \in Procs, o \in OrderIds, uid \in Users :
          (Exists(o) /\ orders[o].userId # uid /\ CancelStart(p, o, uid))
              => /\ proc'[p] = Idle("Forbidden")
                 /\ orders' = orders /\ quota' = quota /\ tickets' = tickets
                 /\ UNCHANGED <<nextId, payments, paidMails>>]_vars

\* a stranger's cancel of the awaiting_payment order with its active
\* tickets was refused
StrangerRefused ==
    /\ proc[1] = Idle("Forbidden")
    /\ orders[1].status = "awaiting_payment"
    /\ quota = InitialQuota - orders[1].quantity
    /\ Len(tickets[1]) = orders[1].quantity
    /\ \A i \in 1..Len(tickets[1]) : tickets[1][i].status = "active"

\* C28: a webhook with the configured token whose external_id is no UUID or
\* names no stored order, or whose status is none of PAID, EXPIRED and
\* PENDING, is answered without error and writes nothing: no order, payment,
\* ticket or quota changes and no handler step follows
MalformedWebhookIgnored ==
    [][\A p \in Procs, o \in ExternalIds, hook \in PayloadStatus :
          (/\ HookStart(p, WebhookToken, o, hook)
           /\ \/ o \notin OrderIds
              \/ hook \notin {"PAID", "EXPIRED", "PENDING"}
              \/ orders[o] = NoOrder)
              => (proc'[p] = Idle("ok:ignored") /\ UNCHANGED db)]_vars

\* a webhook was ignored while the order, pending with its pending payment,
\* was the only one stored
IgnoredWhileAwaited ==
    /\ proc[1] = Idle("ok:ignored")
    /\ nextId = 2 /\ orders[1].status = "pending"
    /\ HasPayment(1) /\ PaymentOf(1).status = "pending"
    /\ quota = InitialQuota - orders[1].quantity

\* C29: createPaymentForOrder, called by the owner, is admitted when the
\* order is pending and has no payment, and is otherwise answered
\* BadRequest with nothing written; the admitted handler is the one that
\* stores the order's first payment and that saves it as awaiting_payment
CreatePaymentGuarded ==
    [][\A p \in Procs :
          /\ \A o \in OrderIds :
                (CreatePaymentStart(p, o, Owner) /\ Exists(o))
                    => IF orders[o].status = "pending" /\ ~HasPayment(o)
                         THEN proc'[p] = [Call("createPayment", o) EXCEPT !.pc = "p_find"]
                         ELSE /\ proc'[p].pc = "idle"
                              /\ proc'[p].res \in {"BadRequest:CannotBePaid",
                                                    "BadRequest:PaymentExists"}
                              /\ UNCHANGED db
          /\ (proc[p].op = "createPayment" /\ proc'[p] # proc[p])
                => LET o == proc[p].oid
                   IN /\ payments'[o] # payments[o]
                            => /\ payments[o] = <<>>
                               /\ payments'[o] = <<[status |-> "pending", by |-> "createPayment",
                                                    paidAt |-> <<>>]>>
                      /\ orders'[o] # orders[o]
                            => /\ proc[p].ord.status = "pending"
                               /\ orders'[o].status = "awaiting_payment"]_vars

\* createPaymentForOrder has stored the payment of the order and moved it
\* to awaiting_payment
PaymentCreatedForOrder ==
    /\ \E p \in Procs : proc[p] = Idle("ok")
    /\ orders[1].status = "awaiting_payment"
    /\ HasPayment(1) /\ PaymentOf(1).by = "createPayment"

\* the handler of process p is expireOrders and takes this step
SweepStep(p, pc) ==
    /\ proc[p].op = "sweep" /\ proc[p].pc = pc /\ proc'[p].pc # pc

\* C30: in a pass of expireOrders an updateStatus that throws and an expired
\* email that fails write nothing and lead to the next order; every selected
\* order gets its updateStatus(EXPIRED), whose save leaves it expired; the
\* pass ends only when no selected order is left, and answers normally
SweepIsolation ==
    [][\A p \in Procs :
          /\ (SweepStep(p, "u_find") /\ ~Exists(proc[p].oid))
                => /\ proc'[p].pc = "s_next" /\ proc'[p].todo = proc[p].todo
                   /\ UNCHANGED db
          /\ (proc[p].op = "sweep" /\ SendMail(p, FALSE))
                => /\ proc'[p].pc = "s_next" /\ proc'[p].todo = proc[p].todo
                   /\ UNCHANGED db
          /\ (SweepStep(p, "s_next") /\ proc[p].todo # {})
                => /\ proc'[p].pc = "u_find" /\ proc'[p].st = "expired"
                   /\ proc'[p].oid \in proc[p].todo
                   /\ proc'[p].todo = proc[p].todo \ {proc'[p].oid}
          /\ SweepStep(p, "u_save")
                => orders'[proc[p].oid].status = "expired"
          /\ (proc[p].op = "sweep" /\ proc'[p].pc = "idle")
                => /\ proc[p].pc = "s_next" /\ proc[p].todo = {}
                   /\ proc'[p] = Idle("ok")]_vars

\* a pass over two orders has come to its end: the updateStatus of one threw
\* (the order had been deleted by the rollback of its create), the other
\* order is expired
SweptPastFailure ==
    \E p \in Procs :
        /\ At(p, "sweep", "s_next") /\ proc[p].todo = {}
        /\ proc[p].res = "logged:NotFound"
        /\ Cardinality(proc[p].sel) = MaxOrders
        /\ \E o \in proc[p].sel : orders[o].status = "expired"

\* C31: when the PDF generation of a batch fails, the rows of the batch,
\* saved before, stay as they are, each without PDF reference; the order,
\* paid when its payment led to the generation, stays as it is; and no
\* later generation adds rows to an order that has its tickets
PdfFailureKeepsTickets ==
    [][\A p \in Procs :
          /\ GenPdf(p, FALSE)
                => LET t == proc[p]
                       o == t.oid
                   IN /\ tickets' = tickets /\ orders' = orders
                      /\ Len(tickets[o]) = t.gfrom + t.qty
                      /\ \A i \in (t.gfrom + 1)..(t.gfrom + t.qty) :
                            tickets[o][i].status = "active" /\ ~tickets[o][i].pdf
                      /\ t.site \in {"upd", "hook"} => orders[o].status = "paid"
          /\ \A o \in OrderIds :
                Exists(o) => Len(tickets'[o]) <= orders[o].quantity]_vars

\* the PAID webhook was delivered again for the paid order whose PDF
\* generation had failed: its tickets are there, without PDF, and no more
PaidAgainAfterPdfFailure ==
    /\ proc[1] = Idle("ok:unchanged")
    /\ \E o \in OrderIds :
          /\ orders[o].status = "paid" /\ orders[o].quantity = MaxQty
          /\ Len(tickets[o]) = MaxQty
          /\ \A i \in 1..MaxQty : tickets[o][i].status = "active" /\ ~tickets[o][i].pdf
          /\ paidMails[o] = 0

\* C32: a regenerateTicket call that completes sets the QR and the PDF
\* reference of its ticket to the file names of the ticket number, both
\* non-empty, whatever they were before, so that a repeated call leaves the
\* tickets as they are; it changes no other column of the row and no other
\* row, and no other step of the call writes
RegenerateIdempotent ==
    [][\A p \in Procs :
          /\ (proc[p].pc = "r_update" /\ proc'[p].pc = "idle")
                => LET o == proc[p].oid
                       i == proc[p].tid
                       row == tickets[o][i]
                       after == tickets'[o][i]
                   IN /\ after.qrCodeUrl = qrCodeFileName(row.number)
                      /\ after.pdfUrl = pdfFileName(row.number)
                      /\ after.qrCodeUrl # NoFile /\ after.pdfUrl # NoFile
                      /\ after = [row EXCEPT !.qrCodeUrl = after.qrCodeUrl,
                                             !.pdfUrl = after.pdfUrl]
                      /\ tickets' = [tickets EXCEPT ![o][i] = after]
                      /\ (row.qrCodeUrl = after.qrCodeUrl /\ row.pdfUrl = after.pdfUrl)
                            => tickets' = tickets
          /\ (/\ proc'[p] # proc[p]
              /\ proc[p].op = "regenerate" \/ proc'[p].op = "regenerate"
              /\ proc[p].pc # "r_update")
                => tickets' = tickets]_vars

\* the owner regenerated the first of two tickets that were generated
\* without PDF, after it had been checked in: it is still used, checked in
\* by the same user, and has both references; the second ticket has no PDF
RegeneratedUsedTicket ==
    /\ proc[1] = Idle("ok")
    /\ Len(tickets[1]) = MaxQty
    /\ LET row == tickets[1][1]
       IN /\ row.status = "used" /\ row.checkedIn /\ row.checkedInBy = 2
          /\ row.qrCodeUrl = qrCodeFileName(row.number)
          /\ row.pdfUrl = pdfFileName(row.number)
    /\ tickets[1][2].pdfUrl = NoFile /\ tickets[1][2].status = "active"

\* C39: checkInTicket stores a check-in only on a ticket that is active and
\* not checked in at that moment: a ticket that was checked in, concurrently
\* or before, keeps its checkedInAt and checkedInBy, and a cancelled or used
\* ticket is never checked in
CheckedInOnce ==
    [][\A p \in Procs :
          (proc[p].pc = "k_save" /\ proc'[p].pc = "idle")
            => LET row == tickets[proc[p].oid][proc[p].tid]
               IN row.status = "active" /\ ~row.checkedIn]_vars

\* C33: the invoice that formatInvoiceResponse returns carries, for each
\* field that the response supplies under one of its names, the supplied
\* value (a date as its ISO string where the function converts dates; an
\* empty string, a zero or a false may come out as the default), and for
\* each field that the response omits an empty or undefined value
InvoiceNormalized ==
    \A p \in Procs :
        proc[p].pc = "p_save"
          => \A c \in Fields :
                LET names == {k \in Keys : Canonical(k) = c}
                    supplied == {k \in names : proc[p].resp[k] # Undefined}
                    converts == c \in {"updated", "created", "expiry_date"}
                    defaults == {Undefined, "''", "0"}
                IN /\ supplied = {} => proc[p].inv[c] \in defaults
                   /\ \A k \in supplied :
                         supplied = {k}
                           => \/ proc[p].inv[c] = IF converts /\ proc[p].resp[k] = "Date"
                                                    THEN IsoString
                                                    ELSE proc[p].resp[k]
                              \/ Falsy(proc[p].resp[k]) /\ proc[p].inv[c] \in defaults

AwaitingSwept ==
    \A o \in OrderIds :
        (orders[o].status = "awaiting_payment" /\ orders[o].age > PaymentDeadline)
          ~> (orders[o].status \in {"expired", "cancelled"} /\ quota >= InitialQuota)

\* C36: the post-payment processing of an updateStatus that saved the order
\* as paid always comes to the paid email: the ticket generation, whether
\* it works or fails, is followed by sendOrderPaidEmail
PaidMailAttempted ==
    [][\A p \in Procs :
          (/\ proc[p].site = "upd"
           /\ proc[p].pc \in {"g_find", "g_save", "g_pdf"}
           /\ proc'[p].pc # proc[p].pc)
            => proc'[p].pc \in {"g_save", "g_pdf", "u_mail"}]_vars

\* C37: when no operation is in progress, the quota and the quantities of
\* the orders in pending, awaiting_payment or paid add up to the original
\* quota of the event
QuotaConserved ==
    Quiescent => quota + Total([o \in OrderIds |-> orders[o].quantity], Live) = InitialQuota

\* C38: when no operation is in progress, an order whose payment is paid
\* is paid
PaidPaymentKept ==
    Quiescent
      => \A o \in OrderIds :
            (Exists(o) /\ HasPayment(o) /\ PaymentOf(o).status = "paid")
              => orders[o].status = "paid"

====
